---- MODULE Spec2Model ----
(***************************************************************************)
(* Model of scrub.py: get_start_end_timestamps (the interval extractor)    *)
(* and scrub_audio (the timeline splicer).                                 *)
(*                                                                         *)
(* Time is counted in whole ticks; the tick [t, t+1) of a clip is one      *)
(* sample.  A source sample is <<"src", t>>, a beep sample is              *)
(* <<"beep", o>> with o the offset inside beep.mp3, and <<"pad", 0>> is    *)
(* what a subclip holds where it reaches past the end of its clip.         *)
(* Python floats are finite ticks plus NaN and the two infinities.         *)
(***************************************************************************)
EXTENDS Integers, Sequences, FiniteSets, TLC

\* ------------------------------------------------------------- bounds
MaxTime == 4        \* largest finite time stamp and largest source duration
MaxBeep == 2        \* largest duration of beep.mp3
MaxIntervals == 2   \* longest interval list handed to scrub_audio
MaxEntries == 2     \* most entries in word_segments

\* ------------------------------------------------------------- floats
Num(n) == [k |-> "num", v |-> n]
NaN == [k |-> "nan", v |-> 0]
Inf == [k |-> "inf", v |-> 0]
NegInf == [k |-> "ninf", v |-> 0]

IsNaN(x) == x.k = "nan"
IsFinite(x) == x.k = "num"

\* a < b on floats: False as soon as one side is NaN
FLt(a, b) ==
    /\ ~IsNaN(a)
    /\ ~IsNaN(b)
    /\ \/ a.k = "num" /\ b.k = "num" /\ a.v < b.v
       \/ a.k = "ninf" /\ b.k # "ninf"
       \/ a.k = "num" /\ b.k = "inf"

FNeg(a) ==
    CASE a.k = "num" -> Num(0 - a.v)
      [] a.k = "inf" -> NegInf
      [] a.k = "ninf" -> Inf
      [] OTHER -> NaN

FAdd(a, b) ==
    CASE IsNaN(a) \/ IsNaN(b) -> NaN
      [] a.k = "num" /\ b.k = "num" -> Num(a.v + b.v)
      [] a.k = "num" -> b
      [] b.k = "num" -> a
      [] a.k = b.k -> a
      [] OTHER -> NaN

FSub(a, b) == FAdd(a, FNeg(b))

\* ------------------------------------------------------------- clips
Pad == <<"pad", 0>>

\* original_audio: sample t of the source at position t + 1
SourceSamples(d) == [i \in 1..d |-> <<"src", i - 1>>]

\* beep.mp3: sample o of the tone at position o + 1
BeepSamples(b) == [i \in 1..b |-> <<"beep", i - 1>>]

\* concatenate_audioclips([beep] * loops)
TiledBeep(b, loops) == [i \in 1..(b * loops) |-> <<"beep", (i - 1) % b>>]

\* clip.subclip(t_start, t_end) for finite 0 <= t_start <= t_end: the new
\* clip lasts t_end - t_start and plays the old one from t_start on
SubclipSamples(clip, a, b) ==
    [i \in 1..(b - a) |-> IF a + i <= Len(clip) THEN clip[a + i] ELSE Pad]

\* total duration of concatenate_audioclips(segs): the sum of the durations
RECURSIVE SumDurations(_)
SumDurations(durs) ==
    IF durs = <<>> THEN Num(0)
    ELSE FAdd(durs[1], SumDurations(Tail(durs)))

RECURSIVE Flatten(_)
Flatten(seqs) ==
    IF seqs = <<>> THEN <<>>
    ELSE seqs[1] \o Flatten(Tail(seqs))

\* ------------------------------------------------------------- state
VARIABLES
    pc,               \* position inside scrub_audio
    time_intervals,   \* argument: sequence of [start, end]
    source_duration,  \* original_audio.duration
    beep_duration,    \* beep.duration
    idx,              \* position of the for loop in time_intervals
    last_end_time,
    audio_segments,   \* the clips appended so far
    modified_audio,   \* the concatenation, once built
    opened,           \* clip handles opened so far
    closed,           \* clip handles closed so far
    written,          \* write_audiofile has produced the output file
    logged,           \* logging.error has been called by the handler
    exc,              \* the exception scrub_audio re-raised, "none" if none
    xpc,              \* position inside get_start_end_timestamps
    word_segments,    \* json_data["word_segments"].values()
    filtered_json,    \* filtered_df[['start', 'end']].to_dict(orient='records')
    valid_intervals,  \* the list get_start_end_timestamps returns
    xlogged,          \* logging.error has been called by its handler
    xexc              \* the exception get_start_end_timestamps re-raised

scrubVars == <<pc, time_intervals, source_duration, beep_duration, idx,
               last_end_time, audio_segments, modified_audio, opened, closed,
               written, logged, exc>>
extractVars == <<xpc, word_segments, filtered_json, valid_intervals, xlogged,
                 xexc>>
vars == <<scrubVars, extractVars>>

NoAudio == [duration |-> Num(0), samples |-> <<>>]

\* ------------------------------------------------------------- scrub_audio
Interval(s, e) == [start |-> s, end |-> e]

\* intervals as get_start_end_timestamps returns them (start < end) ...
FiniteIntervals ==
    {Interval(Num(p[1]), Num(p[2])) :
        p \in {q \in (0..MaxTime) \X (0..MaxTime) : q[1] < q[2]}}

\* ... an infinite end, which passes its start < end filter too, and the NaN
\* stamps a direct caller of scrub_audio can hand over
NonFiniteIntervals ==
    {Interval(Num(1), Inf), Interval(Num(1), NaN),
     Interval(NaN, Num(MaxTime)), Interval(NaN, NaN)}

IntervalLists ==
    UNION {[1..n -> FiniteIntervals \cup NonFiniteIntervals] : n \in 0..MaxIntervals}

\* float(interval['start']), float(interval['end'])
StartTime == time_intervals[idx].start
EndTime == time_intervals[idx].end

\* interval_duration = end_time - start_time
IntervalDuration == FSub(EndTime, StartTime)

\* faulty variant: the guard of the pass-through dropped
PassThroughUnguarded(last, start) == ~IsNaN(last) /\ ~IsNaN(start)

\* if last_end_time < start_time:
PassThroughNeeded(last, start) == FLt(last, start)

\* faulty variant: the pass-through taken from the start of the source, not the cursor
SourceSubclipFromZero(a, b) ==
    [clip |-> "src", loops |-> 0, t_start |-> Num(0), t_end |-> b]

\* original_audio.subclip(t_start, t_end)
SourceSubclip(a, b) == [clip |-> "src", loops |-> 0, t_start |-> a, t_end |-> b]

\* faulty variant: the extra repetition forgotten
LoopsFloor(dur, b) == dur \div b

\* faulty variant: the repetitions rounded up instead
LoopsCeil(dur, b) == (dur + b - 1) \div b

\* loops = int(interval_duration // beep_duration) + 1
Loops(dur, b) == (dur \div b) + 1

\* int(nan) raises ValueError: inf // beep_duration is nan
LoopsRaises(dur) == ~IsFinite(dur)

\* if beep_duration < interval_duration:
TilingNeeded(b, dur) == FLt(Num(b), dur)

\* the beep_to_add of one interval
BeepToAdd(dur, b) ==
    IF TilingNeeded(b, dur)
    THEN [clip |-> "beep", loops |-> Loops(dur.v, b), t_start |-> Num(0), t_end |-> dur]
    ELSE [clip |-> "beep", loops |-> 0, t_start |-> Num(0), t_end |-> dur]

\* faulty variant: the comparison of the final segment inverted
TailNeededInverted(last, d) == FLt(Num(d), last)

\* if last_end_time < original_audio.duration:
TailNeeded(last, d) == FLt(last, Num(d))

\* clip.duration of a subclip
SegDuration(seg) == FSub(seg.t_end, seg.t_start)

\* what a segment plays
SegSamples(seg, d, b) ==
    IF ~(IsFinite(seg.t_start) /\ IsFinite(seg.t_end) /\ 0 <= seg.t_start.v
            /\ seg.t_start.v <= seg.t_end.v)
    THEN <<>>
    ELSE SubclipSamples(
            IF seg.clip = "src" THEN SourceSamples(d)
            ELSE IF seg.loops > 0 THEN TiledBeep(b, seg.loops)
            ELSE BeepSamples(b),
            seg.t_start.v, seg.t_end.v)

\* concatenate_audioclips(audio_segments)
ConcatenateAudioclips(segs, d, b) ==
    [duration |-> SumDurations([i \in 1..Len(segs) |-> SegDuration(segs[i])]),
     samples |-> Flatten([i \in 1..Len(segs) |-> SegSamples(segs[i], d, b)])]

\* faulty variant: the check tests for an infinite duration, not for NaN
NaNCheckTestsInf(audio) == audio.duration.k \in {"inf", "ninf"}

\* if modified_audio.duration != modified_audio.duration:
NaNCheckFails(audio) == IsNaN(audio.duration)

\* the handles the normal path closes
ClosedOnSuccess == {"video", "original_audio", "modified_audio"}

Init ==
    /\ pc = "open_video"
    /\ time_intervals \in IntervalLists
    /\ source_duration \in 1..MaxTime
    /\ beep_duration \in 1..MaxBeep
    /\ idx = 1
    /\ last_end_time = Num(0)
    /\ audio_segments = <<>>
    /\ modified_audio = NoAudio
    /\ opened = {}
    /\ closed = {}
    /\ written = FALSE
    /\ logged = FALSE
    /\ exc = "none"
    /\ xpc = "idle"
    /\ word_segments = <<>>
    /\ filtered_json = <<>>
    /\ valid_intervals = <<>>
    /\ xlogged = FALSE
    /\ xexc = "none"

\* except Exception as e: logging.error(...); raise -- the frame is left, its
\* locals are gone, the handles it opened stay as they are
Handler(e) ==
    /\ pc' = "raised"
    /\ exc' = e
    /\ logged' = TRUE
    /\ idx' = 1
    /\ last_end_time' = Num(0)
    /\ audio_segments' = <<>>
    /\ modified_audio' = NoAudio
    /\ UNCHANGED <<time_intervals, source_duration, beep_duration, opened,
                   closed, written, extractVars>>

OpenVideo ==
    /\ pc = "open_video"
    /\ opened' = opened \cup {"video", "original_audio"}
    /\ pc' = "open_beep"
    /\ UNCHANGED <<time_intervals, source_duration, beep_duration, idx,
                   last_end_time, audio_segments, modified_audio, closed,
                   written, logged, exc, extractVars>>

OpenBeep ==
    /\ pc = "open_beep"
    /\ opened' = opened \cup {"beep"}
    /\ audio_segments' = <<>>
    /\ last_end_time' = Num(0)
    /\ pc' = "loop"
    /\ UNCHANGED <<time_intervals, source_duration, beep_duration, idx,
                   modified_audio, closed, written, logged, exc, extractVars>>

PassThrough ==
    /\ pc = "loop"
    /\ idx <= Len(time_intervals)
    /\ audio_segments' =
          IF PassThroughNeeded(last_end_time, StartTime)
          THEN Append(audio_segments, SourceSubclip(last_end_time, StartTime))
          ELSE audio_segments
    /\ pc' = "beep"
    /\ UNCHANGED <<time_intervals, source_duration, beep_duration, idx,
                   last_end_time, modified_audio, opened, closed, written,
                   logged, exc, extractVars>>

BeepSegment ==
    /\ pc = "beep"
    /\ ~(TilingNeeded(beep_duration, IntervalDuration) /\ LoopsRaises(IntervalDuration))
    /\ audio_segments' = Append(audio_segments, BeepToAdd(IntervalDuration, beep_duration))
    /\ last_end_time' = EndTime
    /\ idx' = idx + 1
    /\ pc' = "loop"
    /\ UNCHANGED <<time_intervals, source_duration, beep_duration,
                   modified_audio, opened, closed, written, logged, exc,
                   extractVars>>

LoopsValueError ==
    /\ pc = "beep"
    /\ TilingNeeded(beep_duration, IntervalDuration)
    /\ LoopsRaises(IntervalDuration)
    /\ Handler("ValueError: cannot convert float NaN to integer")

FinalSegment ==
    /\ pc = "loop"
    /\ idx > Len(time_intervals)
    /\ audio_segments' =
          IF TailNeeded(last_end_time, source_duration)
          THEN Append(audio_segments,
                      SourceSubclip(last_end_time, Num(source_duration)))
          ELSE audio_segments
    /\ pc' = "concat"
    /\ UNCHANGED <<time_intervals, source_duration, beep_duration, idx,
                   last_end_time, modified_audio, opened, closed, written,
                   logged, exc, extractVars>>

Concatenate ==
    /\ pc = "concat"
    /\ modified_audio' =
          ConcatenateAudioclips(audio_segments, source_duration, beep_duration)
    /\ opened' = opened \cup {"modified_audio"}
    /\ pc' = "nancheck"
    /\ UNCHANGED <<time_intervals, source_duration, beep_duration, idx,
                   last_end_time, audio_segments, closed, written, logged, exc,
                   extractVars>>

NaNCheckPasses ==
    /\ pc = "nancheck"
    /\ ~NaNCheckFails(modified_audio)
    /\ pc' = "write"
    /\ UNCHANGED <<time_intervals, source_duration, beep_duration, idx,
                   last_end_time, audio_segments, modified_audio, opened,
                   closed, written, logged, exc, extractVars>>

NaNCheckRaises ==
    /\ pc = "nancheck"
    /\ NaNCheckFails(modified_audio)
    /\ Handler("ValueError: Modified audio duration is NaN")

WriteAudiofile ==
    /\ pc = "write"
    /\ written' = TRUE
    /\ pc' = "close"
    /\ UNCHANGED <<time_intervals, source_duration, beep_duration, idx,
                   last_end_time, audio_segments, modified_audio, opened,
                   closed, logged, exc, extractVars>>

Close ==
    /\ pc = "close"
    /\ closed' = closed \cup ClosedOnSuccess
    /\ pc' = "done"
    /\ UNCHANGED <<time_intervals, source_duration, beep_duration, idx,
                   last_end_time, audio_segments, modified_audio, opened,
                   written, logged, exc, extractVars>>

\* the steps that call into moviepy, each of which can raise
CallsMedia ==
    \/ pc \in {"open_video", "open_beep", "beep", "concat", "write", "close"}
    \/ /\ pc = "loop"
       /\ idx <= Len(time_intervals)
       /\ PassThroughNeeded(last_end_time, StartTime)
    \/ /\ pc = "loop"
       /\ idx > Len(time_intervals)
       /\ TailNeeded(last_end_time, source_duration)

MediaError ==
    /\ CallsMedia
    /\ Handler("MediaIOError")

Next ==
    \/ OpenVideo
    \/ OpenBeep
    \/ PassThrough
    \/ BeepSegment
    \/ LoopsValueError
    \/ FinalSegment
    \/ Concatenate
    \/ NaNCheckPasses
    \/ NaNCheckRaises
    \/ WriteAudiofile
    \/ Close
    \/ MediaError

Spec == Init /\ [][Next]_vars

\* ------------------------------------------------- get_start_end_timestamps
\* a word is a sequence of characters: "*", the word characters "a" and "_",
\* and "-", which \w does not match
WordChars == {"a", "_"}

Str(w) == [k |-> "str", v |-> w]
Missing == [k |-> "missing", v |-> <<>>]
Null == [k |-> "null", v |-> 0]
Absent == [k |-> "missing", v |-> 0]

Words ==
    {Str(<<"a">>),
     Str(<<"*", "*", "a", "*", "*">>),
     Str(<<"-", "*", "*", "a", "_", "*", "*", "a">>),
     Str(<<"*", "*", "-", "*", "*">>),
     Str(<<"*", "*", "*", "*">>),
     Missing}

\* the shapes of an entry's time stamps: in order, zero-length, inverted,
\* null on one side, absent on one side
StampPairs ==
    {<<Num(0), Num(1)>>, <<Num(1), Num(1)>>, <<Num(1), Num(0)>>,
     <<Null, Num(1)>>, <<Num(0), Null>>, <<Absent, Num(1)>>, <<Num(0), Absent>>}

Entries ==
    {[word |-> w, start |-> p[1], end |-> p[2]] : w \in Words, p \in StampPairs}

Transcripts == UNION {[1..n -> Entries] : n \in 0..MaxEntries}

\* pd.DataFrame(rows): a column for every key that some row carries
HasColumn(rows, col) == \E i \in 1..Len(rows) : rows[i][col].k # "missing"

\* the end of the longest run of \w characters of w that starts at j
RECURSIVE WordRunEnd(_, _)
WordRunEnd(w, j) ==
    IF j <= Len(w) /\ w[j] \in WordChars THEN WordRunEnd(w, j + 1) ELSE j - 1

\* pattern = r'\*\*(\w+)\*\*' matched at position i of w
MatchesAt(w, i) ==
    /\ i + 1 <= Len(w)
    /\ w[i] = "*"
    /\ w[i + 1] = "*"
    /\ LET j == WordRunEnd(w, i + 2)
       IN  /\ j >= i + 2
           /\ j + 2 <= Len(w)
           /\ w[j + 1] = "*"
           /\ w[j + 2] = "*"

\* Series.str.contains(pattern, regex=True, na=False) on one cell
StrContains(cell) ==
    /\ cell.k = "str"
    /\ \E i \in 1..Len(cell.v) : MatchesAt(cell.v, i)

\* a cell of the DataFrame as a float: a null or absent stamp is NaN
Cell(x) == IF x.k = "num" THEN x ELSE NaN

RECURSIVE FilterRows(_)
FilterRows(rows) ==
    IF rows = <<>> THEN <<>>
    ELSE (IF StrContains(rows[1].word)
          THEN <<Interval(Cell(rows[1].start), Cell(rows[1].end))>>
          ELSE <<>>) \o FilterRows(Tail(rows))

\* pd.notna(start) and pd.notna(end) and float(start) < float(end)
IsValidInterval(i) == ~IsNaN(i.start) /\ ~IsNaN(i.end) /\ FLt(i.start, i.end)

RECURSIVE ValidIntervals(_)
ValidIntervals(recs) ==
    IF recs = <<>> THEN <<>>
    ELSE (IF IsValidInterval(recs[1]) THEN <<recs[1]>> ELSE <<>>)
         \o ValidIntervals(Tail(recs))

InitExtract ==
    /\ xpc = "load"
    /\ word_segments \in Transcripts
    /\ filtered_json = <<>>
    /\ valid_intervals = <<>>
    /\ xlogged = FALSE
    /\ xexc = "none"
    /\ pc = "idle"
    /\ time_intervals = <<>>
    /\ source_duration = 1
    /\ beep_duration = 1
    /\ idx = 1
    /\ last_end_time = Num(0)
    /\ audio_segments = <<>>
    /\ modified_audio = NoAudio
    /\ opened = {}
    /\ closed = {}
    /\ written = FALSE
    /\ logged = FALSE
    /\ exc = "none"

\* except Exception as e: logging.error(...); raise
ExtractHandler(e) ==
    /\ xpc' = "raised"
    /\ xexc' = e
    /\ xlogged' = TRUE
    /\ filtered_json' = <<>>
    /\ UNCHANGED <<word_segments, valid_intervals, scrubVars>>

LoadJson ==
    /\ xpc = "load"
    /\ xpc' = "filter"
    /\ UNCHANGED <<word_segments, filtered_json, valid_intervals, xlogged,
                   xexc, scrubVars>>

\* open, json.load or json_data["word_segments"] fails
LoadFails ==
    /\ xpc = "load"
    /\ ExtractHandler("ParseError")

WordKeyError ==
    /\ xpc = "filter"
    /\ ~HasColumn(word_segments, "word")
    /\ ExtractHandler("KeyError: 'word'")

StampKeyError ==
    /\ xpc = "filter"
    /\ HasColumn(word_segments, "word")
    /\ ~(HasColumn(word_segments, "start") /\ HasColumn(word_segments, "end"))
    /\ ExtractHandler("KeyError: ['start', 'end']")

Filter ==
    /\ xpc = "filter"
    /\ HasColumn(word_segments, "word")
    /\ HasColumn(word_segments, "start")
    /\ HasColumn(word_segments, "end")
    /\ filtered_json' = FilterRows(word_segments)
    /\ xpc' = "validate"
    /\ UNCHANGED <<word_segments, valid_intervals, xlogged, xexc, scrubVars>>

Validate ==
    /\ xpc = "validate"
    /\ valid_intervals' = ValidIntervals(filtered_json)
    /\ xpc' = "done"
    /\ UNCHANGED <<word_segments, filtered_json, xlogged, xexc, scrubVars>>

NextExtract ==
    \/ LoadJson
    \/ LoadFails
    \/ WordKeyError
    \/ StampKeyError
    \/ Filter
    \/ Validate

SpecExtract == InitExtract /\ [][NextExtract]_vars

\* ------------------------------------------------------------- properties
\* every stamp finite and start < end
FiniteList(ivs) ==
    \A i \in 1..Len(ivs) :
        /\ IsFinite(ivs[i].start)
        /\ IsFinite(ivs[i].end)
        /\ ivs[i].start.v < ivs[i].end.v

InRange(x, d) == ~IsNaN(x) /\ ~FLt(x, Num(0)) /\ ~FLt(Num(d), x)

\* ascending by start and non-overlapping; touching intervals allowed
Ordered(ivs) ==
    \A i \in 1..(Len(ivs) - 1) : ivs[i].end.v <= ivs[i + 1].start.v

\* the interval lists the splicer accepts as valid
ValidList(ivs, d) ==
    /\ FiniteList(ivs)
    /\ \A i \in 1..Len(ivs) : InRange(ivs[i].start, d) /\ InRange(ivs[i].end, d)
    /\ Ordered(ivs)

\* all segments have been emitted
Emitted == pc \in {"concat", "nancheck", "write", "close", "done"}

\* modified_audio has been built
Built == pc \in {"nancheck", "write", "close", "done"}

EmittedDuration ==
    SumDurations([i \in 1..Len(audio_segments) |-> SegDuration(audio_segments[i])])

BeepSegments == SelectSeq(audio_segments, LAMBDA seg : seg.clip = "beep")

Covered(t) ==
    \E i \in 1..Len(time_intervals) :
        time_intervals[i].start.v <= t /\ t < time_intervals[i].end.v

\* C1: for a valid interval list the durations of the emitted segments, in
\* emission order, add up to the source duration, and so does the duration of
\* the concatenation.
C1_DurationPreserved ==
    (Emitted /\ ValidList(time_intervals, source_duration)) =>
        /\ EmittedDuration = Num(source_duration)
        /\ Built =>
              /\ modified_audio.duration = Num(source_duration)
              /\ Len(modified_audio.samples) = source_duration

C1_Witness ==
    /\ pc = "done"
    /\ ValidList(time_intervals, source_duration)
    /\ Len(time_intervals) = 2
    /\ Len(audio_segments) = 4
    /\ modified_audio.duration = Num(source_duration)

\* C3: for a valid interval list every tick of the output outside all
\* intervals plays the source tick of the same time.
C3_PassThroughFidelity ==
    (Built /\ ValidList(time_intervals, source_duration)) =>
        \A t \in 0..(source_duration - 1) :
            ~Covered(t) =>
                /\ t + 1 <= Len(modified_audio.samples)
                /\ modified_audio.samples[t + 1] = <<"src", t>>

C3_Witness ==
    /\ pc = "done"
    /\ ValidList(time_intervals, source_duration)
    /\ Len(time_intervals) = 1
    /\ ~Covered(0)
    /\ ~Covered(source_duration - 1)
    /\ modified_audio.samples[source_duration] = <<"src", source_duration - 1>>

\* C4: for a valid interval list every tick t of an interval (s, e) plays the
\* beep at offset (t - s) mod beep.duration, tiled or not, and the beep
\* segment of the interval lasts exactly e - s.
C4_ToneCoverage ==
    (Built /\ ValidList(time_intervals, source_duration)) =>
        /\ Len(BeepSegments) = Len(time_intervals)
        /\ \A i \in 1..Len(time_intervals) :
              LET s == time_intervals[i].start.v
                  e == time_intervals[i].end.v
              IN  /\ SegDuration(BeepSegments[i]) = Num(e - s)
                  /\ \A t \in s..(e - 1) :
                        /\ t + 1 <= Len(modified_audio.samples)
                        /\ modified_audio.samples[t + 1] =
                              <<"beep", (t - s) % beep_duration>>

C4_Witness ==
    /\ pc = "done"
    /\ ValidList(time_intervals, source_duration)
    /\ \E i \in 1..Len(BeepSegments) :
          /\ BeepSegments[i].loops > 0
          /\ BeepSegments[i].loops * beep_duration > BeepSegments[i].t_end.v
    /\ \E i \in 1..Len(BeepSegments) : BeepSegments[i].loops = 0

Ceil(n, b) == (n + b - 1) \div b

\* C5 as stated: whenever the beep is shorter than the interval, the number
\* of repetitions concatenated is ceil(duration / beep.duration).
C5_LoopsAreCeil ==
    \A i \in 1..Len(audio_segments) :
        LET seg == audio_segments[i]
        IN  (seg.clip = "beep" /\ FLt(Num(beep_duration), seg.t_end)) =>
                seg.loops = Ceil(seg.t_end.v, beep_duration)

\* C5 amended: the number of repetitions is floor(duration / beep.duration)
\* + 1; that covers the interval, is the ceiling when the duration is no
\* multiple of the beep, and one more than the ceiling when it is.
C5_LoopsAreFloorPlusOne ==
    \A i \in 1..Len(audio_segments) :
        LET seg == audio_segments[i]
        IN  (seg.clip = "beep" /\ FLt(Num(beep_duration), seg.t_end)) =>
                /\ seg.loops * beep_duration > seg.t_end.v
                /\ (seg.loops - 1) * beep_duration <= seg.t_end.v
                /\ seg.loops =
                      IF seg.t_end.v % beep_duration = 0
                      THEN Ceil(seg.t_end.v, beep_duration) + 1
                      ELSE Ceil(seg.t_end.v, beep_duration)

C5_Witness ==
    /\ pc = "done"
    /\ \E i \in 1..Len(audio_segments) :
          /\ audio_segments[i].clip = "beep"
          /\ audio_segments[i].loops = 3
          /\ audio_segments[i].t_end = Num(2)
          /\ beep_duration = 1

\* C6 as stated: when scrub_audio has returned or raised, every handle it
\* opened has been closed.
C6_ResourcesReleased ==
    pc \in {"done", "raised"} => opened \subseteq closed

\* C7 as stated: an interval with its start or end outside
\* [0, source duration] never gets an output written.
C7_OutOfRangeRejected ==
    (\E i \in 1..Len(time_intervals) :
        \/ ~InRange(time_intervals[i].start, source_duration)
        \/ ~InRange(time_intervals[i].end, source_duration))
    => ~written

\* C9: a concatenation whose duration is NaN or infinite makes scrub_audio
\* log the error and re-raise it, and no output is written in that run.
C9_DegenerateDurationGuard ==
    /\ [][(Built /\ ~IsFinite(modified_audio.duration))' =>
             (pc = "nancheck" /\ ~written)']_vars
    /\ [][(pc = "nancheck" /\ ~IsFinite(modified_audio.duration)) =>
             /\ pc' = "raised"
             /\ logged'
             /\ exc' = "ValueError: Modified audio duration is NaN"
             /\ ~written']_vars
    /\ [][pc = "raised" => pc' = "raised" /\ ~written']_vars

C9_Witness ==
    /\ pc = "raised"
    /\ exc = "ValueError: Modified audio duration is NaN"
    /\ logged
    /\ ~written

\* C10 as stated: an interval list that is not ascending or overlaps makes
\* scrub_audio extract a pass-through subclip whose start is after its end.
C10_NegativeSubclip ==
    (pc = "done" /\ FiniteList(time_intervals) /\ ~Ordered(time_intervals)) =>
        \E i \in 1..Len(audio_segments) :
            /\ audio_segments[i].clip = "src"
            /\ FLt(audio_segments[i].t_end, audio_segments[i].t_start)

\* C10 amended: no pass-through subclip is ever empty or negative; on a list
\* that is not ascending or overlaps, the pass-through before an interval
\* that starts before the cursor is skipped while its beep is emitted in
\* full, so the emitted segments last longer than the source.
C10_OverlapAddsTime ==
    /\ \A i \in 1..Len(audio_segments) :
          audio_segments[i].clip = "src" =>
              FLt(audio_segments[i].t_start, audio_segments[i].t_end)
    /\ (Emitted /\ FiniteList(time_intervals) /\ ~Ordered(time_intervals)) =>
          FLt(Num(source_duration), EmittedDuration)

C10_Witness ==
    /\ pc = "done"
    /\ FiniteList(time_intervals)
    /\ ~Ordered(time_intervals)
    /\ \A i \in 1..Len(time_intervals) :
          InRange(time_intervals[i].end, source_duration)
    /\ FLt(Num(source_duration), modified_audio.duration)
    /\ written

\* the entries the filter rule of the extractor keeps
Flagged(w) ==
    \E i \in 1..Len(w) : \E n \in 1..Len(w) :
        /\ i + n + 3 <= Len(w)
        /\ w[i] = "*" /\ w[i + 1] = "*"
        /\ \A j \in (i + 2)..(i + n + 1) : w[j] \in WordChars
        /\ w[i + n + 2] = "*" /\ w[i + n + 3] = "*"

Kept(entry) ==
    /\ entry.word.k = "str"
    /\ Flagged(entry.word.v)
    /\ entry.start.k = "num"
    /\ entry.end.k = "num"
    /\ entry.start.v < entry.end.v

KeptPairs ==
    LET kept == SelectSeq(word_segments, Kept)
    IN  [i \in 1..Len(kept) |-> Interval(kept[i].start, kept[i].end)]

\* C2 as stated: once the transcript has been loaded, the extractor returns,
\* without error, exactly the pairs of the flagged entries with both stamps
\* present and start < end, in transcript order.
C2_FilterCorrect ==
    /\ xpc \notin {"raised"} \/ xexc = "ParseError"
    /\ xpc = "done" => valid_intervals = KeptPairs

\* what the extractor does return when it returns: the pairs of the kept
\* entries, in transcript order
ReturnsKeptPairs == xpc = "done" => valid_intervals = KeptPairs

\* C8 as stated: a transcript in which one entry lacks the word field while
\* others carry it makes the extractor fail instead of returning a list.
C8_MissingWordRejected ==
    (/\ \E i \in 1..Len(word_segments) : word_segments[i].word.k = "missing"
     /\ \E i \in 1..Len(word_segments) : word_segments[i].word.k = "str")
    => xpc # "done"
====
